---- MODULE Spec2Model ----
(***************************************************************************)
(* A model of the JSON-RPC 2.0 handler of package jsonrpc: the request    *)
(* codec (decodeRequest, request.call, method.call), the single-shot HTTP *)
(* adapter (ServeHTTP) and the stream server (ServeConn) with its decode  *)
(* loop, its worker goroutines and its mutex-serialised writer path.      *)
(***************************************************************************)
EXTENDS Integers, Sequences, FiniteSets, TLC

(***************************************************************************)
(* Bounds of the model.                                                    *)
(***************************************************************************)
\* Number of requests decoded from one stream (workers spawned by ServeConn).
MaxRequests == 2
\* Number of registration calls made on one handler after NewHandler.
MaxRegistrations == 2

(***************************************************************************)
(* JSON-RPC 2.0 reserved status codes.                                     *)
(***************************************************************************)
StatusParseError == -32700
StatusInvalidRequest == -32600
StatusMethodNotFound == -32601
StatusInvalidParams == -32602
StatusInternalError == -32603

(***************************************************************************)
(* Raw JSON values.  A value is a record with a type tag t and its text v; *)
(* an array also carries its elements.  Absent marks an object member that *)
(* is not present; NilBytes is Go's nil byte slice (jsonrpcID(nil),       *)
(* json.RawMessage(nil)), which differs from the four bytes "null".       *)
(***************************************************************************)
JStr(s) == [t |-> "string", v |-> s]
JNum(n) == [t |-> "number", v |-> n]
JBool(b) == [t |-> "bool", v |-> b]
JObj(s) == [t |-> "object", v |-> s]
JArr(es) == [t |-> "array", v |-> "", elems |-> es]
JNull == [t |-> "null", v |-> "null"]
Absent == [t |-> "absent", v |-> ""]
NilBytes == [t |-> "nil", v |-> ""]

(***************************************************************************)
(* Go values held in interface{} fields (Result, Error.Data).  A value    *)
(* that encoding/json can marshal is carried as the JSON it marshals to;   *)
(* GoNil is the nil interface and GoChan a channel, which json.Marshal     *)
(* rejects with an UnsupportedTypeError.                                   *)
(***************************************************************************)
GoNil == [t |-> "gonil", v |-> ""]
GoChan == [t |-> "chan", v |-> ""]

Marshalable(val) == val.t # "chan"
Marshal(val) == IF val = GoNil THEN JNull ELSE val

(***************************************************************************)
(* type Error and the nil *Error.                                          *)
(***************************************************************************)
NilError == [nil |-> TRUE]
NewError(code, message, data) == [Code |-> code, Message |-> message, Data |-> data]

(***************************************************************************)
(* jsonrpcID.                                                              *)
(***************************************************************************)
\* func (m jsonrpcID) MarshalJSON: a nil id is written as null.
MarshalJSON(m) == IF m = NilBytes THEN JNull ELSE m

\* func (m *jsonrpcID) UnmarshalJSON: only a string, a number or null is
\* accepted; the accepted bytes are copied into the id.  m is the id before
\* the call and is left alone on error.
UnmarshalJSON_KeepNil(m, data) ==
    IF data.t \in {"string", "number"}
    THEN [err |-> "", m |-> data]
    ELSE IF data.t = "null"
    THEN [err |-> "", m |-> m]
    ELSE [err |-> "\"id\" is not a valid type: " \o data.v, m |-> m]

UnmarshalJSON(m, data) ==
    IF data.t \in {"string", "number", "null"}
    THEN [err |-> "", m |-> data]
    ELSE [err |-> "\"id\" is not a valid type: " \o data.v, m |-> m]

(***************************************************************************)
(* Functions registered to the handler.  A signature lists the parameter  *)
(* types, whether the function is variadic (the last parameter type is    *)
(* then the slice's element type) and the return types.                    *)
(***************************************************************************)
Sig(ins, variadic, outs) == [kind |-> "func", ins |-> ins, variadic |-> variadic, outs |-> outs]

\* The functions of the test suite, the README's "bad", one function whose
\* result cannot be marshalled, one that returns a nil error and nothing
\* else, and one that takes a context, a string and any number of ints.
Funcs ==
    [echo        |-> Sig(<<"string">>, FALSE, <<"string">>),
     multiecho   |-> Sig(<<"string">>, TRUE, <<"string">>),
     ctxdata     |-> Sig(<<"context">>, FALSE, <<"string", "error">>),
     nilerror    |-> Sig(<<>>, FALSE, <<"string", "error">>),
     nilresult   |-> Sig(<<>>, FALSE, <<>>),
     error       |-> Sig(<<"string">>, FALSE, <<"error">>),
     prefixecho  |-> Sig(<<"string", "string">>, TRUE, <<"string">>),
     chan        |-> Sig(<<"chan">>, FALSE, <<>>),
     bad         |-> Sig(<<"raw">>, FALSE, <<"error">>),
     mkchan      |-> Sig(<<>>, FALSE, <<"chan">>),
     validate    |-> Sig(<<"int">>, FALSE, <<"error">>),
     ctxjoin     |-> Sig(<<"context", "string", "int">>, TRUE, <<"string">>)]

\* type method, as built by newMethod.
NoMethod == [name |-> ""]

Tail2(s) == IF Len(s) = 0 THEN s ELSE SubSeq(s, 2, Len(s))
Front(s) == IF Len(s) = 0 THEN s ELSE SubSeq(s, 1, Len(s) - 1)

newMethod(name, fn) ==
    IF fn.kind # "func"
    THEN [err |-> name \o ": cannot use type as a method", m |-> NoMethod]
    ELSE
    LET hasContext == Len(fn.ins) > 0 /\ fn.ins[1] = "context"
        ins1 == IF hasContext THEN Tail2(fn.ins) ELSE fn.ins
        ins2 == IF fn.variadic THEN Front(ins1) ELSE ins1
        i0 == Len(fn.outs) - 1
        hasError == i0 >= 0 /\ fn.outs[i0 + 1] = "error"
        i1 == IF hasError THEN i0 - 1 ELSE i0
        hasResponse == i1 >= 0
        i2 == IF hasResponse THEN i1 - 1 ELSE i1
    IN  IF i2 >= 0
        THEN [err |-> name \o ": too many output arguments for method", m |-> NoMethod]
        ELSE [err |-> "",
              m |-> [Value |-> fn,
                     name |-> name,
                     hasContext |-> hasContext,
                     nargs |-> Len(ins2),
                     ins |-> ins2,
                     variadic |-> IF fn.variadic THEN ins1[Len(ins1)] ELSE "",
                     hasError |-> hasError,
                     hasResponse |-> hasResponse]]

\* Handler.registry after the RegisterMethod calls.
registry == [name \in DOMAIN Funcs |-> newMethod(name, Funcs[name]).m]

(***************************************************************************)
(* Registration.  A registry is a function from names to methods; every   *)
(* operation yields the registry after it and whether it panicked.        *)
(***************************************************************************)
\* make(map[string]*method)
EmptyRegistry == [name \in {} |-> NoMethod]

\* h.registry[name] = m
Put_KeepFirst(reg, name, m) ==
    [n \in DOMAIN reg \cup {name} |-> IF n \in DOMAIN reg THEN reg[n] ELSE m]

Put(reg, name, m) ==
    [n \in DOMAIN reg \cup {name} |-> IF n = name THEN m ELSE reg[n]]

\* Handler.RegisterMethod: panic(err) comes before the assignment.
RegisterMethod_StoreFirst(reg, name, fn) ==
    LET r == newMethod(name, fn)
    IN  [panics |-> r.err # "", reg |-> Put(reg, name, r.m)]

RegisterMethod(reg, name, fn) ==
    LET r == newMethod(name, fn)
    IN  IF r.err # ""
        THEN [panics |-> TRUE, reg |-> reg]
        ELSE [panics |-> FALSE, reg |-> Put(reg, name, r.m)]

\* A receiver: a value of a named type with the method set reflection
\* lists for it, in the order of the method names.  Each method has a
\* name, is exported or not, and has a signature.
Method(name, exported, sig) == [name |-> name, exported |-> exported, sig |-> sig]
Receiver(id, type, methods) == [id |-> id, type |-> type, methods |-> methods]

\* v.Method(i).Interface(): the method as a function bound to its receiver.
MethodValue(rcvr, mt) ==
    [kind |-> mt.sig.kind, ins |-> mt.sig.ins, variadic |-> mt.sig.variadic,
     outs |-> mt.sig.outs, recv |-> rcvr.id, method |-> mt.name]

\* The name a method of a receiver is registered under.
MethodKey_Bare(typeName, methodName) == methodName

MethodKey(typeName, methodName) == typeName \o "." \o methodName

\* Handler.registerName: the loop over the methods from index i on.
RECURSIVE registerFrom(_, _, _, _)
registerFrom(reg, name, rcvr, i) ==
    IF i > Len(rcvr.methods)
    THEN [panics |-> FALSE, reg |-> reg]
    ELSE LET mt == rcvr.methods[i]
             r == RegisterMethod(reg, MethodKey(name, mt.name), MethodValue(rcvr, mt))
         IN  IF ~mt.exported THEN registerFrom(reg, name, rcvr, i + 1)
             ELSE IF r.panics THEN r
             ELSE registerFrom(r.reg, name, rcvr, i + 1)

registerName(reg, name, rcvr) == registerFrom(reg, name, rcvr, 1)

\* Handler.Register: the name is that of the receiver's type.
Register(reg, rcvr) == registerName(reg, rcvr.type, rcvr)

\* Handler.RegisterName
RegisterName(reg, name, rcvr) == registerName(reg, name, rcvr)

\* NewHandler(rcvrs...): the registry of the new handler.
RECURSIVE registerAll(_, _)
registerAll(reg, rcvrs) ==
    IF Len(rcvrs) = 0 THEN reg
    ELSE registerAll(Register(reg, rcvrs[1]).reg, Tail2(rcvrs))

NewHandler(rcvrs) == registerAll(EmptyRegistry, rcvrs)

\* What is offered for registration: two functions, a value that is not a
\* function and two functions with an illegal return shape; two values of
\* type Echoer, a receiver with an unexported method and a receiver one of
\* whose methods has an illegal return shape.
RegFuncs ==
    {Sig(<<"string">>, FALSE, <<"string">>),
     Sig(<<"context", "int">>, FALSE, <<"string", "error">>),
     [kind |-> "struct", ins |-> <<>>, variadic |-> FALSE, outs |-> <<>>],
     Sig(<<>>, FALSE, <<"string", "string", "error">>),
     Sig(<<>>, FALSE, <<"error", "string">>)}
RegNames == {"echo", "Echoer.Echo"}
EchoerMethods ==
    <<Method("DelayEcho", TRUE, Sig(<<"string", "int">>, FALSE, <<"string">>)),
      Method("Echo", TRUE, Sig(<<"string">>, FALSE, <<"string">>))>>
Echoer1 == Receiver(1, "Echoer", EchoerMethods)
Echoer2 == Receiver(2, "Echoer", EchoerMethods)
Counter ==
    Receiver(3, "Counter",
             <<Method("Get", TRUE, Sig(<<>>, FALSE, <<"int">>)),
               Method("reset", FALSE, Sig(<<>>, FALSE, <<>>))>>)
Broken ==
    Receiver(4, "Broken",
             <<Method("Alpha", TRUE, Sig(<<>>, FALSE, <<"error">>)),
               Method("Both", TRUE, Sig(<<>>, FALSE, <<"int", "int", "error">>)),
               Method("Zeta", TRUE, Sig(<<>>, FALSE, <<>>))>>)
Receivers == {Echoer1, Echoer2, Counter, Broken}
TypeNames == {"Echoer", "Svc"}
\* The receivers given to NewHandler.
Constructions == {<<>>, <<Echoer1>>, <<Counter, Echoer2>>}

\* The record of one registration call.
NoFunc == [kind |-> "none"]
NoReceiver == Receiver(0, "", <<>>)
RegCall(op, name, fn, rcvr, panics) ==
    [op |-> op, name |-> name, fn |-> fn, rcvr |-> rcvr, panics |-> panics]

\* The calls that set up the handler that serves: NewHandler() and one
\* RegisterMethod for each of Funcs.
FuncNames ==
    <<"echo", "multiecho", "ctxdata", "nilerror", "nilresult", "error", "prefixecho", "chan",
      "bad", "mkchan", "validate", "ctxjoin">>
Setup ==
    [k \in 1..Len(FuncNames) |->
        RegCall("RegisterMethod", FuncNames[k], Funcs[FuncNames[k]], NoReceiver, FALSE)]

(***************************************************************************)
(* The bodies of the registered functions: the values a call returns.     *)
(* errKind is "nil" for a nil error, "plain" for an error made by         *)
(* errors.New (errText is its text), "jsonrpcError" for an *Error returned *)
(* as error (errPtr) and "typedNil" for a nil *Error stored in the error   *)
(* interface.                                                              *)
(***************************************************************************)
Outs(result, errKind, errText, errPtr) ==
    [result |-> result, errKind |-> errKind, errText |-> errText, errPtr |-> errPtr]

UserFunc(name, args) ==
    CASE name = "echo" -> Outs(args[1], "nil", "", NilError)
      [] name = "multiecho" -> Outs(IF Len(args) = 0 THEN JStr("") ELSE args[1], "nil", "", NilError)
      [] name = "prefixecho" -> Outs(args[1], "nil", "", NilError)
      [] name = "ctxdata" -> Outs(JStr("Hello world!"), "nil", "", NilError)
      [] name = "nilerror" -> Outs(JStr("Hello world!"), "typedNil", "", NilError)
      [] name = "nilresult" -> Outs(GoNil, "nil", "", NilError)
      [] name = "error" -> Outs(GoNil, "plain", args[1].v, NilError)
      [] name = "bad" -> Outs(GoNil, "jsonrpcError", "",
                              NewError(101, "This endpoint is bad.", args[1]))
      [] name = "mkchan" -> Outs(GoChan, "nil", "", NilError)
      [] name = "ctxjoin" -> Outs(args[1], "nil", "", NilError)
      [] OTHER -> Outs(GoNil, "nil", "", NilError)

(***************************************************************************)
(* method.call, first half: the raw arguments are split, counted and      *)
(* unmarshalled.  The outcome is either an Error or the argument list     *)
(* the function is invoked with.                                           *)
(***************************************************************************)
\* The slice json.Unmarshal makes of a JSON array: its elements, in order.
Elems_Reversed(params) ==
    [i \in 1..Len(params.elems) |-> params.elems[Len(params.elems) + 1 - i]]

Elems(params) == params.elems

\* json.Unmarshal(params, &args): only a JSON array unmarshals into a slice;
\* any other value becomes the only argument.
RawArgs_ArrayOnly(params) ==
    IF params = NilBytes \/ params.t # "array" THEN <<>> ELSE params.elems

RawArgs(params) ==
    IF params = NilBytes \/ params.t = "null"
    THEN <<>>
    ELSE IF params.t = "array" THEN Elems(params) ELSE <<params>>

\* json.Unmarshal of one argument into a new value of type typ; null leaves
\* the zero value, a channel accepts nothing else.
UnmarshalErr(raw, typ) ==
    IF raw.t = "null" \/ typ = "raw" THEN ""
    ELSE IF typ = "string" /\ raw.t = "string" THEN ""
    ELSE IF typ = "int" /\ raw.t = "number" THEN ""
    ELSE "json: cannot unmarshal " \o raw.t \o " into Go value of type " \o typ

ArgType(m, i) == IF i <= m.nargs THEN m.ins[i] ELSE m.variadic

FailingArgs(m, args) == {i \in 1..Len(args) : UnmarshalErr(args[i], ArgType(m, i)) # ""}

\* The loop over the arguments returns at the first one that fails.
Min_Last(S) == CHOOSE x \in S : \A y \in S : x >= y

Min(S) == CHOOSE x \in S : \A y \in S : x <= y

\* The slice ins that m.Call receives: the context first when the function
\* takes one, then one new value per raw argument, of the type of its
\* parameter.
ContextValue(ctx) == [type |-> "context", v |-> ctx]
NewValue(typ, raw) == [type |-> typ, v |-> raw]

CallIns_NoContext(m, ctx, args) == [i \in 1..Len(args) |-> NewValue(ArgType(m, i), args[i])]

CallIns(m, ctx, args) ==
    (IF m.hasContext THEN <<ContextValue(ctx)>> ELSE <<>>)
        \o [i \in 1..Len(args) |-> NewValue(ArgType(m, i), args[i])]

\* The check of the number of arguments n against the method.
ArityOK_AtLeast(m, n) == n >= m.nargs

ArityOK(m, n) == IF m.variadic # "" THEN n >= m.nargs ELSE n = m.nargs

methodBind(m, params) ==
    LET args == RawArgs(params)
        bad == FailingArgs(m, args)
    IN  IF m.variadic # "" /\ ~ArityOK(m, Len(args))
        THEN [err |-> NewError(StatusInvalidParams,
                               m.name \o ": require at least " \o ToString(m.nargs) \o " params",
                               GoNil),
              args |-> <<>>]
        ELSE IF m.variadic = "" /\ ~ArityOK(m, Len(args))
        THEN [err |-> NewError(StatusInvalidParams,
                               m.name \o ": require " \o ToString(m.nargs) \o " params",
                               GoNil),
              args |-> <<>>]
        ELSE IF bad # {}
        THEN [err |-> NewError(StatusInvalidParams,
                               m.name \o ": " \o UnmarshalErr(args[Min(bad)], ArgType(m, Min(bad))),
                               args[Min(bad)]),
              args |-> <<>>]
        ELSE [err |-> NilError, args |-> args]

\* method.call, second half: the error return is reported first, then the
\* result.  The outcome is what request.call receives as (result, err).
methodReturn(m, outs) ==
    IF m.hasError /\ outs.errKind # "nil"
    THEN [result |-> GoNil, errKind |-> outs.errKind, errText |-> outs.errText,
          errPtr |-> outs.errPtr]
    ELSE IF m.hasResponse
    THEN [result |-> outs.result, errKind |-> "nil", errText |-> "", errPtr |-> NilError]
    ELSE [result |-> GoNil, errKind |-> "nil", errText |-> "", errPtr |-> NilError]

(***************************************************************************)
(* type request and type response.                                         *)
(***************************************************************************)
\* The zero response and the zero request (new(request)).
NewResponse == [Protocol |-> "", ID |-> NilBytes, Error |-> NilError, Result |-> GoNil]
NewRequest ==
    [Protocol |-> "", ID |-> NilBytes, Method |-> "", Params |-> NilBytes,
     res |-> NewResponse, m |-> NoMethod]

(***************************************************************************)
(* What the reader delivers to dec.Decode: a JSON object with the members *)
(* of a request (each a raw value or Absent), text that is not JSON, a    *)
(* failing read, or the end of the stream.                                 *)
(***************************************************************************)
Obj(id, jsonrpc, method, params) ==
    [kind |-> "object", id |-> id, jsonrpc |-> jsonrpc, method |-> method,
     params |-> params, msg |-> ""]
SyntaxItem ==
    [kind |-> "syntax", id |-> Absent, jsonrpc |-> Absent, method |-> Absent, params |-> Absent,
     msg |-> "invalid character 'j' looking for beginning of object key string"]
ReadErrItem ==
    [kind |-> "readerr", id |-> Absent, jsonrpc |-> Absent, method |-> Absent, params |-> Absent,
     msg |-> "unexpected EOF"]
EOFItem ==
    [kind |-> "eof", id |-> Absent, jsonrpc |-> Absent, method |-> Absent, params |-> Absent,
     msg |-> "EOF"]
\* Nothing was read yet.
NoItem ==
    [kind |-> "none", id |-> Absent, jsonrpc |-> Absent, method |-> Absent, params |-> Absent,
     msg |-> ""]

\* A string field of the struct: a JSON string is stored, null and an absent
\* member leave the zero value, anything else is an UnmarshalTypeError.
StringField(raw) == IF raw.t = "string" THEN raw.v ELSE ""
StringFieldErr(raw, field) ==
    IF raw.t \in {"string", "null", "absent"} THEN ""
    ELSE "json: cannot unmarshal " \o raw.t \o " into Go struct field request." \o field
         \o " of type string"

\* dec.Decode(req): errKind is "" (decoded), "eof", "syntax" or "other".
Decode(item) ==
    LET idr == IF item.id = Absent
               THEN [err |-> "", m |-> NilBytes]
               ELSE UnmarshalJSON(NilBytes, item.id)
        perr == StringFieldErr(item.jsonrpc, "jsonrpc")
        merr == StringFieldErr(item.method, "method")
        req == [NewRequest EXCEPT !.Protocol = StringField(item.jsonrpc),
                                  !.ID = idr.m,
                                  !.Method = StringField(item.method),
                                  !.Params = IF item.params = Absent THEN NilBytes
                                             ELSE item.params]
    IN  IF item.kind = "eof" THEN [errKind |-> "eof", msg |-> item.msg, req |-> NewRequest]
        ELSE IF item.kind = "syntax"
        THEN [errKind |-> "syntax", msg |-> item.msg, req |-> NewRequest]
        ELSE IF item.kind = "readerr"
        THEN [errKind |-> "other", msg |-> item.msg, req |-> NewRequest]
        ELSE IF idr.err # "" THEN [errKind |-> "other", msg |-> idr.err, req |-> req]
        ELSE IF perr # "" THEN [errKind |-> "other", msg |-> perr, req |-> req]
        ELSE IF merr # "" THEN [errKind |-> "other", msg |-> merr, req |-> req]
        ELSE [errKind |-> "", msg |-> "", req |-> req]

\* The code decodeRequest reports for a failed decode: a *json.SyntaxError
\* is a parse error, every other error an invalid request.
DecodeErrorCode_AlwaysInvalid(errKind) == StatusInvalidRequest

DecodeErrorCode(errKind) ==
    IF errKind = "syntax" THEN StatusParseError ELSE StatusInvalidRequest

\* The protocol gate of decodeRequest.
ProtocolOK_Any(protocol) == TRUE

ProtocolOK(protocol) == protocol = "2.0"

\* The error of decodeRequest for a name that is not in the registry.
NoSuchMethod_Anonymous(name) == NewError(StatusMethodNotFound, "No such method", GoNil)

NoSuchMethod(name) == NewError(StatusMethodNotFound, "No such method: " \o name, GoNil)

\* Handler.decodeRequest: h is the registry of the handler; ok is the value
\* returned, req the request after it.
decodeRequest_LookupFirst(h, item) ==
    LET d == Decode(item)
        req0 == [d.req EXCEPT !.res.Protocol = "2.0"]
        req1 == [req0 EXCEPT !.res.ID = req0.ID]
    IN  IF d.errKind = "eof" THEN [ok |-> FALSE, req |-> req0]
        ELSE IF d.errKind \in {"syntax", "other"}
        THEN [ok |-> FALSE,
              req |-> [req0 EXCEPT !.res.ID = JNull,
                                   !.res.Error = NewError(DecodeErrorCode(d.errKind), d.msg,
                                                          GoNil)]]
        ELSE IF req1.Method \notin DOMAIN h
        THEN [ok |-> TRUE,
              req |-> [req1 EXCEPT !.res.Error = NoSuchMethod(req1.Method)]]
        ELSE IF ~ProtocolOK(req1.Protocol)
        THEN [ok |-> TRUE,
              req |-> [req1 EXCEPT !.res.Error =
                          NewError(StatusInvalidRequest,
                                   "Invalid protocol: expected jsonrpc: 2.0", GoNil)]]
        ELSE [ok |-> TRUE, req |-> [req1 EXCEPT !.m = h[req1.Method]]]

decodeRequest(h, item) ==
    LET d == Decode(item)
        req0 == [d.req EXCEPT !.res.Protocol = "2.0"]
        req1 == [req0 EXCEPT !.res.ID = req0.ID]
    IN  IF d.errKind = "eof" THEN [ok |-> FALSE, req |-> req0]
        ELSE IF d.errKind \in {"syntax", "other"}
        THEN [ok |-> FALSE,
              req |-> [req0 EXCEPT !.res.ID = JNull,
                                   !.res.Error = NewError(DecodeErrorCode(d.errKind), d.msg,
                                                          GoNil)]]
        ELSE IF ~ProtocolOK(req1.Protocol)
        THEN [ok |-> TRUE,
              req |-> [req1 EXCEPT !.res.Error =
                          NewError(StatusInvalidRequest,
                                   "Invalid protocol: expected jsonrpc: 2.0", GoNil)]]
        ELSE IF req1.Method \notin DOMAIN h
        THEN [ok |-> TRUE,
              req |-> [req1 EXCEPT !.res.Error = NoSuchMethod(req1.Method)]]
        ELSE [ok |-> TRUE, req |-> [req1 EXCEPT !.m = h[req1.Method]]]

\* The test both servers make before req.call: a request that carries an
\* error from decodeRequest is not called.
ShouldCall_CallsOnly(res) == res.Error = NilError /\ res.ID # NilBytes

ShouldCall(res) == res.Error = NilError

(***************************************************************************)
(* request.call.  callBegin runs up to the invocation of the function:    *)
(* invoked tells whether the function is entered.  callEnd takes what the *)
(* function returned; panics tells whether err.Error() dereferences a nil *)
(* *Error.                                                                 *)
(***************************************************************************)
callBegin_WrongID(req) ==
    LET b == methodBind(req.m, req.Params)
        r == [req EXCEPT !.res.Protocol = "2.0", !.res.ID = JNull]
    IN  IF b.err # NilError
        THEN [invoked |-> FALSE, args |-> <<>>, req |-> [r EXCEPT !.res.Error = b.err]]
        ELSE [invoked |-> TRUE, args |-> b.args, req |-> r]

callBegin(req) ==
    LET b == methodBind(req.m, req.Params)
        r == [req EXCEPT !.res.Protocol = "2.0", !.res.ID = req.ID]
    IN  IF b.err # NilError
        THEN [invoked |-> FALSE, args |-> <<>>, req |-> [r EXCEPT !.res.Error = b.err]]
        ELSE [invoked |-> TRUE, args |-> b.args, req |-> r]

\* err.Error() dereferences its receiver: a nil *Error held in the error
\* interface makes it panic.
NilDeref_Never(errKind) == FALSE

NilDeref(errKind) == errKind = "typedNil"

callEnd_WrapAll(req, outs) ==
    LET ret == methodReturn(req.m, outs)
    IN  IF ret.errKind = "nil"
        THEN [panics |-> FALSE, req |-> [req EXCEPT !.res.Result = ret.result]]
        ELSE IF NilDeref(ret.errKind)
        THEN [panics |-> TRUE, req |-> req]
        ELSE [panics |-> FALSE,
              req |-> [req EXCEPT !.res.Error =
                          NewError(StatusInternalError,
                                   IF ret.errKind = "jsonrpcError" THEN ret.errPtr.Message
                                   ELSE ret.errText,
                                   GoNil)]]

callEnd(req, outs) ==
    LET ret == methodReturn(req.m, outs)
    IN  IF ret.errKind = "nil"
        THEN [panics |-> FALSE, req |-> [req EXCEPT !.res.Result = ret.result]]
        ELSE IF ret.errKind = "jsonrpcError"
        THEN [panics |-> FALSE, req |-> [req EXCEPT !.res.Error = ret.errPtr]]
        ELSE IF NilDeref(ret.errKind)
        THEN [panics |-> TRUE, req |-> req]
        ELSE [panics |-> FALSE,
              req |-> [req EXCEPT !.res.Error =
                          NewError(StatusInternalError, ret.errText, GoNil)]]

(***************************************************************************)
(* Encoding of a response.  An encoded JSON object is a record whose      *)
(* fields are the members written.                                         *)
(***************************************************************************)
EncodeError(e) == [code |-> e.Code, message |-> e.Message, data |-> Marshal(e.Data)]

\* enc.Encode(res.errorResponse): the error member is omitted when nil.
EncodeErrorResponse(res) ==
    IF res.Error = NilError
    THEN [jsonrpc |-> res.Protocol, id |-> MarshalJSON(res.ID)]
    ELSE [jsonrpc |-> res.Protocol, id |-> MarshalJSON(res.ID),
          error |-> EncodeError(res.Error)]

\* enc.Encode(res): the embedded errorResponse and the result member.
EncodeResponse_OmitEmpty(res) ==
    IF res.Result = GoNil
    THEN [jsonrpc |-> res.Protocol, id |-> MarshalJSON(res.ID)]
    ELSE [jsonrpc |-> res.Protocol, id |-> MarshalJSON(res.ID),
          result |-> Marshal(res.Result)]

EncodeResponse(res) ==
    IF res.Error = NilError
    THEN [jsonrpc |-> res.Protocol, id |-> MarshalJSON(res.ID),
          result |-> Marshal(res.Result)]
    ELSE [jsonrpc |-> res.Protocol, id |-> MarshalJSON(res.ID),
          error |-> EncodeError(res.Error), result |-> Marshal(res.Result)]

\* The branch on res.Error in send and in ServeHTTP.
Encoding_AlwaysFull(res) == EncodeResponse(res)

Encoding(res) ==
    IF res.Error # NilError THEN EncodeErrorResponse(res) ELSE EncodeResponse(res)

\* enc.Encode returns an error when a value to write cannot be marshalled.
EncodeFails(res) ==
    IF res.Error # NilError THEN ~Marshalable(res.Error.Data) ELSE ~Marshalable(res.Result)

\* The test of ServeConn and ServeHTTP for a notification.
IsNotification_Never(res) == FALSE

IsNotification(res) == res.ID = NilBytes

(***************************************************************************)
(* The requests offered to the servers.                                    *)
(***************************************************************************)
V2 == JStr("2.0")
Params1(s) == JArr(<<JStr(s)>>)

\* What a client writes to the stream served by ServeConn: notifications
\* with every outcome (success, user error, binding error, unknown method,
\* wrong version), calls with a number, a null and a string id (a success,
\* an unknown method, a result that cannot be encoded), a request with an id
\* of a wrong type and text that is not JSON.
StreamInputs ==
    {Obj(Absent, V2, JStr("echo"), Params1("Notification")),
     Obj(Absent, V2, JStr("error"), Params1("Error")),
     Obj(Absent, V2, JStr("echo"), Absent),
     Obj(Absent, V2, JStr("nosuch"), Params1("Error")),
     Obj(Absent, JStr("1.0"), JStr("echo"), Params1("Notification")),
     Obj(JNum("1"), V2, JStr("echo"), Params1("Hello world!")),
     Obj(JNull, V2, JStr("nosuch"), Params1("Error")),
     Obj(JStr("\"2\""), V2, JStr("mkchan"), Absent),
     Obj(JBool("true"), V2, JStr("echo"), Params1("Hello world!")),
     SyntaxItem}

\* What a client posts to ServeHTTP: every combination of id, version,
\* method and params below, text that is not JSON, a body cut short, and an
\* empty body.
HTTPIds == {Absent, JNull, JNum("1"), JStr("\"1\""), JBool("true")}
HTTPVersions == {V2, JStr("1.0"), JNum("2.0"), Absent}
HTTPMethods == {JStr(n) : n \in DOMAIN Funcs \cup {"nosuch"}}
HTTPParams ==
    {Absent, JNull, JStr("Hello world!"), JNum("7"), JObj("{\"a\":1}"), JArr(<<>>),
     JArr(<<JStr("Hello")>>), JArr(<<JNum("7")>>), JArr(<<JStr("Hello"), JStr("world!")>>),
     JArr(<<JStr("Hello"), JNum("7")>>), JArr(<<JNum("7"), JNum("8")>>)}
HTTPInputs ==
    {Obj(id, ver, meth, par) :
        id \in HTTPIds, ver \in HTTPVersions, meth \in HTTPMethods, par \in HTTPParams}
    \cup {SyntaxItem, ReadErrItem, EOFItem}

\* type http.ResponseWriter, as far as the handler uses it: the status, the
\* Content-Type header and the documents written to the body.
NoReply == [status |-> 0, contentType |-> "", body |-> <<>>]

\* type http.Request, as far as the handler reads it besides the body: the
\* HTTP method and the Content-Type header.  NoHeader stands before a request
\* has arrived.
Header(httpMethod, contentType) == [method |-> httpMethod, contentType |-> contentType]
NoHeader == Header("", "")
HTTPHeaders ==
    {Header(m, c) : m \in {"POST", "GET"},
                    c \in {"application/json", "application/json; charset=utf-8",
                           "text/plain", ""}}

\* The invocation of a registered function, m.Call(ins), by ServeHTTP: the
\* name of the method and the arguments bound to it.  NoCall: none was made.
Call(name, args) == [name |-> name, args |-> args]
NoCall == Call("", <<>>)
HTTPError(text, code) ==
    [status |-> code, contentType |-> "text/plain; charset=utf-8", body |-> <<[text |-> text]>>]

(***************************************************************************)
(* State.                                                                  *)
(***************************************************************************)
VARIABLES
    hrcvrs,           \* the receivers NewHandler was called with
    hreg,             \* h.registry
    reglog,           \* the registration calls made on the handler
    regpanic,         \* a registration call panicked
    transport,        \* "conn": ServeConn is serving, "http": ServeHTTP is,
                      \* "none": the handler is being set up
    mainpc,           \* position of ServeConn
    items,            \* what dec.Decode read, one entry per spawned worker
    reqs,             \* the request object owned by each worker
    wpc,              \* position of each worker goroutine
    ctxseen,          \* the context each worker passed to req.call
    mainreq,          \* the request of the decode that ended the loop
    mainitem,         \* what that decode read
    lock,             \* holder of the mutex l, or Free
    buf,              \* content of the shared bytes.Buffer
    wire,             \* every Write call made on rw: who, what, outcome
    cancelled,        \* the per-connection context is cancelled
    parentCancelled,  \* the caller's context is cancelled
    panicked,         \* a goroutine panicked: the process is gone
    httppc,           \* position of ServeHTTP
    httpitem,         \* the body of the HTTP request
    httphdr,          \* the HTTP method and Content-Type of the HTTP request
    httpreq,          \* the request object of ServeHTTP
    httpcall,         \* the function ServeHTTP invoked, with its arguments
    httpins,          \* the slice of values that m.Call received
    reply             \* what ServeHTTP did to its http.ResponseWriter

connvars == <<mainpc, items, reqs, wpc, ctxseen, mainreq, mainitem, lock, buf, wire,
              cancelled, parentCancelled, panicked>>
httpvars == <<httppc, httpitem, httphdr, httpreq, httpcall, httpins, reply>>
regvars == <<hrcvrs, hreg, reglog, regpanic>>
vars == <<transport, regvars, connvars, httpvars>>

Free == -1
Main == 0
Workers == 1..Len(wpc)

Init ==
    /\ transport \in {"conn", "http", "none"}
    /\ IF transport = "none"
       THEN /\ hrcvrs \in Constructions
            /\ hreg = NewHandler(hrcvrs)
            /\ reglog = <<>>
       ELSE /\ hrcvrs = <<>>
            /\ hreg = registry
            /\ reglog = Setup
    /\ regpanic = FALSE
    /\ mainpc = "decode"
    /\ items = <<>>
    /\ reqs = <<>>
    /\ wpc = <<>>
    /\ ctxseen = <<>>
    /\ mainreq = NewRequest
    /\ mainitem = NoItem
    /\ lock = Free
    /\ buf = <<>>
    /\ wire = <<>>
    /\ cancelled = FALSE
    /\ parentCancelled = FALSE
    /\ panicked = FALSE
    /\ httppc = "idle"
    /\ httpitem = EOFItem
    /\ httphdr = NoHeader
    /\ httpreq = NewRequest
    /\ httpcall = NoCall
    /\ httpins = <<>>
    /\ reply = NoReply

Serving == transport = "conn" /\ ~panicked

(***************************************************************************)
(* ServeConn: the decode loop.                                             *)
(***************************************************************************)
\* The loop `for { ... }` has no condition and does not look at ctx: with
\* the context cancelled (c) it goes on decoding.
LoopContinues_UntilCancelled(c) == ~c

LoopContinues(c) == TRUE

\* The loop goes from `go func()` straight to the next dec.Decode: it blocks
\* on the reader and on nothing its workers do.
MayDecode_Sequential(pcs) == \A i \in 1..Len(pcs) : pcs[i] \in {"done", "dropped"}

MayDecode(pcs) == TRUE

\* One iteration that decodes a request and starts its goroutine.
DecodeSpawn ==
    /\ Serving
    /\ mainpc = "decode"
    /\ LoopContinues(cancelled)
    /\ MayDecode(wpc)
    /\ Len(wpc) < MaxRequests
    /\ \E item \in StreamInputs :
         LET d == decodeRequest(hreg, item)
         IN  /\ d.ok
             /\ items' = Append(items, item)
             /\ reqs' = Append(reqs, d.req)
             /\ wpc' = Append(wpc, "spawned")
             /\ ctxseen' = Append(ctxseen, "none")
    /\ UNCHANGED <<regvars, transport, mainpc, mainreq, mainitem, lock, buf, wire, cancelled,
                   parentCancelled, panicked, httpvars>>

\* The position of ServeConn after a decode that returned false: with an
\* error to report it goes on to send it, otherwise to wg.Wait.
AfterDecodeFail_Silent(res) == "wait"

AfterDecodeFail(res) == IF res.Error # NilError THEN "send" ELSE "wait"

\* The iteration whose decode fails or finds the end of the stream.
DecodeStop ==
    /\ Serving
    /\ mainpc = "decode"
    /\ LoopContinues(cancelled)
    /\ MayDecode(wpc)
    /\ \E item \in StreamInputs \cup {EOFItem} :
         LET d == decodeRequest(hreg, item)
         IN  /\ ~d.ok
             /\ mainreq' = d.req
             /\ mainitem' = item
             /\ mainpc' = AfterDecodeFail(d.req.res)
    /\ UNCHANGED <<regvars, transport, items, reqs, wpc, ctxseen, lock, buf, wire, cancelled,
                   parentCancelled, panicked, httpvars>>

(***************************************************************************)
(* The send closure.  sendBegin takes the mutex and encodes the response  *)
(* into the buffer; sendEnd writes the buffer to the stream in one Write  *)
(* call, resets it, cancels the context on any error and releases the     *)
(* mutex.                                                                  *)
(***************************************************************************)
\* l.Lock() returns only while nobody holds the mutex.
CanLock_NoMutex(l) == TRUE

CanLock(l) == l = Free

\* enc.Encode appends one complete encoded response, or nothing on error.
\* Each document in the buffer is tagged with the process that encoded it.
BufAfterEncode_Partial(b, p, res) ==
    Append(b, [of |-> p, doc |-> IF EncodeFails(res) THEN [jsonrpc |-> "2.0"] ELSE Encoding(res)])

BufAfterEncode(b, p, res) ==
    IF EncodeFails(res) THEN b ELSE Append(b, [of |-> p, doc |-> Encoding(res)])

\* buf.Reset() after buf.WriteTo(rw).
BufAfterWrite_NoReset(b) == b

BufAfterWrite(b) == <<>>

\* if err != nil { cancel() }
CancelAfterSend_Never(c, err) == c

CancelAfterSend(c, err) == c \/ err

\* The position after Encode: "encoded" with err == nil, "encfail" otherwise.
AfterEncode(res) == IF EncodeFails(res) THEN "encfail" ELSE "encoded"

\* buf.WriteTo(rw): one Write call with the whole buffer, which the stream
\* accepts or fails.
WriteTo(p, ok) == wire' = Append(wire, [by |-> p, payload |-> buf, ok |-> ok])

\* The err that buf.WriteTo(rw) returns: non-nil when the stream did not
\* accept the write.
WriteErr_Always(ok) == TRUE

WriteErr(ok) == ~ok

\* defer l.Unlock()
Unlock_Leak(l) == l

Unlock(l) == Free

sendEnd(p, pc) ==
    /\ pc \in {"encoded", "encfail"}
    /\ IF pc = "encoded"
       THEN \E ok \in BOOLEAN :
              /\ WriteTo(p, ok)
              /\ buf' = BufAfterWrite(buf)
              /\ cancelled' = CancelAfterSend(cancelled, WriteErr(ok))
       ELSE /\ wire' = wire
            /\ buf' = buf
            /\ cancelled' = CancelAfterSend(cancelled, TRUE)
    /\ lock' = Unlock(lock)

\* ServeConn sends the error of the failed decode.
\* ServeConn calls send(&req.res) before wg.Wait(): it waits for the mutex
\* and for none of its workers.
MainMaySend_AfterWorkers(pcs, l) ==
    CanLock(l) /\ \A i \in 1..Len(pcs) : pcs[i] \in {"done", "dropped"}

MainMaySend(pcs, l) == CanLock(l)

MainSendBegin ==
    /\ Serving
    /\ mainpc = "send"
    /\ MainMaySend(wpc, lock)
    /\ lock' = Main
    /\ buf' = BufAfterEncode(buf, Main, mainreq.res)
    /\ mainpc' = AfterEncode(mainreq.res)
    /\ UNCHANGED <<regvars, transport, items, reqs, wpc, ctxseen, mainreq, mainitem, wire,
                   cancelled, parentCancelled, panicked, httpvars>>

MainSendEnd ==
    /\ Serving
    /\ sendEnd(Main, mainpc)
    /\ mainpc' = "wait"
    /\ UNCHANGED <<regvars, transport, items, reqs, wpc, ctxseen, mainreq, mainitem,
                   parentCancelled, panicked, httpvars>>

(***************************************************************************)
(* ServeConn: the goroutine of one request.                                *)
(***************************************************************************)
\* The position of a worker that has its response: a notification returns,
\* anything else goes to send.
AfterCall(res) == IF IsNotification(res) THEN "dropped" ELSE "send"

\* The goroutine starts: a request that already carries an error skips the
\* call; otherwise req.call(ctx) runs up to the invocation of the function.
WorkerStart(i) ==
    /\ Serving
    /\ wpc[i] = "spawned"
    /\ IF ~ShouldCall(reqs[i].res)
       THEN /\ wpc' = [wpc EXCEPT ![i] = AfterCall(reqs[i].res)]
            /\ UNCHANGED <<reqs, ctxseen>>
       ELSE LET c == callBegin(reqs[i])
            IN  /\ reqs' = [reqs EXCEPT ![i] = c.req]
                /\ ctxseen' = [ctxseen EXCEPT ![i] = "conn"]
                /\ wpc' = [wpc EXCEPT ![i] = IF c.invoked THEN "running"
                                              ELSE AfterCall(c.req.res)]
    /\ UNCHANGED <<regvars, transport, mainpc, items, mainreq, mainitem, lock, buf, wire,
                   cancelled, parentCancelled, panicked, httpvars>>

\* The user function returns and req.call stores its outcome.
WorkerReturn(i) ==
    /\ Serving
    /\ wpc[i] = "running"
    /\ LET args == methodBind(reqs[i].m, reqs[i].Params).args
           c == callEnd(reqs[i], UserFunc(reqs[i].m.name, args))
       IN  /\ reqs' = [reqs EXCEPT ![i] = c.req]
           /\ panicked' = c.panics
           /\ wpc' = [wpc EXCEPT ![i] = IF c.panics THEN "panic" ELSE AfterCall(c.req.res)]
    /\ UNCHANGED <<regvars, transport, mainpc, items, ctxseen, mainreq, mainitem, lock, buf,
                   wire, cancelled, parentCancelled, httpvars>>

\* A worker whose call is over sends at once: it waits for the mutex and for
\* nothing else.
MaySend_InOrder(i, pcs, l) == CanLock(l) /\ \A j \in 1..(i - 1) : pcs[j] \in {"done", "dropped"}

MaySend(i, pcs, l) == CanLock(l)

WorkerSendBegin(i) ==
    /\ Serving
    /\ wpc[i] = "send"
    /\ MaySend(i, wpc, lock)
    /\ lock' = i
    /\ buf' = BufAfterEncode(buf, i, reqs[i].res)
    /\ wpc' = [wpc EXCEPT ![i] = AfterEncode(reqs[i].res)]
    /\ UNCHANGED <<regvars, transport, mainpc, items, reqs, ctxseen, mainreq, mainitem, wire,
                   cancelled, parentCancelled, panicked, httpvars>>

\* send returns and the deferred wg.Done() runs.
WorkerSendEnd(i) ==
    /\ Serving
    /\ sendEnd(i, wpc[i])
    /\ wpc' = [wpc EXCEPT ![i] = "done"]
    /\ UNCHANGED <<regvars, transport, mainpc, items, reqs, ctxseen, mainreq, mainitem,
                   parentCancelled, panicked, httpvars>>

(***************************************************************************)
(* ServeConn: wg.Wait() and the return, with the deferred cancel().       *)
(***************************************************************************)
Finished(pc) == pc \in {"done", "dropped"}

WaitReturns_NoWait(pcs) == TRUE

WaitReturns(pcs) == \A i \in 1..Len(pcs) : Finished(pcs[i])

Return ==
    /\ Serving
    /\ mainpc = "wait"
    /\ WaitReturns(wpc)
    /\ mainpc' = "returned"
    /\ cancelled' = TRUE
    /\ UNCHANGED <<regvars, transport, items, reqs, wpc, ctxseen, mainreq, mainitem, lock,
                   buf, wire, parentCancelled, panicked, httpvars>>

\* The caller cancels the context it gave to ServeConn.
ParentCancel ==
    /\ Serving
    /\ mainpc # "returned"
    /\ ~parentCancelled
    /\ parentCancelled' = TRUE
    /\ cancelled' = TRUE
    /\ UNCHANGED <<regvars, transport, mainpc, items, reqs, wpc, ctxseen, mainreq, mainitem,
                   lock, buf, wire, panicked, httpvars>>

(***************************************************************************)
(* ServeHTTP.                                                              *)
(***************************************************************************)
\* The end of ServeHTTP: 204 for a notification, otherwise the header and
\* one encoded response (nothing reaches the body when Encode fails; the
\* status is then the implicit 200).
Respond(res) ==
    IF IsNotification(res)
    THEN [status |-> 204, contentType |-> "", body |-> <<>>]
    ELSE [status |-> 200, contentType |-> "application/json",
          body |-> IF EncodeFails(res) THEN <<>> ELSE <<Encoding(res)>>]

\* The request after decodeRequest and the EOF patch of ServeHTTP.
httpDecode(h, item) ==
    LET d == decodeRequest(h, item)
    IN  IF ~d.ok /\ d.req.res.Error = NilError
        THEN [d.req EXCEPT !.res.ID = JNull,
                           !.res.Error = NewError(StatusInvalidRequest, "EOF", GoNil)]
        ELSE d.req

\* The gate of ServeHTTP: the status of the HTTP-level error it answers
\* with, or 0 when the request goes on to the codec.  The Content-Type is
\* looked at first.
ContentTypeOK_Any(contentType) == TRUE

ContentTypeOK(contentType) == contentType = "application/json"

HTTPGate_AnyMethod(hdr) == IF ~ContentTypeOK(hdr.contentType) THEN 415 ELSE 0

HTTPGate(hdr) ==
    IF ~ContentTypeOK(hdr.contentType) THEN 415
    ELSE IF hdr.method # "POST" THEN 405
    ELSE 0

GateText(status) ==
    IF status = 415 THEN "Unsupported Content-Type: must be application/json"
    ELSE "Unsupported method: must be POST"

\* ServeHTTP up to the invocation of the user function, or to its end when
\* the function is not invoked.
HTTPReceive ==
    /\ transport = "http"
    /\ httppc = "idle"
    /\ \E hdr \in HTTPHeaders, item \in HTTPInputs :
         /\ httpitem' = item
         /\ httphdr' = hdr
         /\ IF HTTPGate(hdr) # 0
            THEN /\ reply' = HTTPError(GateText(HTTPGate(hdr)), HTTPGate(hdr))
                 /\ httppc' = "done"
                 /\ httpreq' = httpreq
                 /\ httpcall' = httpcall
                 /\ httpins' = httpins
            ELSE LET req == httpDecode(hreg, item)
                     c == callBegin(req)
                 IN  IF ~ShouldCall(req.res)
                     THEN /\ httpreq' = req
                          /\ reply' = Respond(req.res)
                          /\ httppc' = "done"
                          /\ httpcall' = httpcall
                          /\ httpins' = httpins
                     ELSE IF c.invoked
                     THEN /\ httpreq' = c.req
                          /\ reply' = reply
                          /\ httppc' = "running"
                          /\ httpcall' = Call(c.req.m.name, c.args)
                          /\ httpins' = CallIns(c.req.m, "request", c.args)
                     ELSE /\ httpreq' = c.req
                          /\ reply' = Respond(c.req.res)
                          /\ httppc' = "done"
                          /\ httpcall' = httpcall
                          /\ httpins' = httpins
    /\ UNCHANGED <<transport, regvars, connvars>>

\* The user function returns; ServeHTTP writes the response.
HTTPReturn ==
    /\ transport = "http"
    /\ httppc = "running"
    /\ LET c == callEnd(httpreq, UserFunc(httpcall.name, httpcall.args))
       IN  /\ httpreq' = c.req
           /\ httppc' = IF c.panics THEN "panic" ELSE "done"
           /\ reply' = IF c.panics THEN reply ELSE Respond(c.req.res)
    /\ UNCHANGED <<transport, regvars, connvars, httpitem, httphdr, httpcall, httpins>>

(***************************************************************************)
(* Setting up the handler: calls of RegisterMethod, Register and          *)
(* RegisterName.  A call that panics ends the setup.                      *)
(***************************************************************************)
SettingUp == transport = "none" /\ ~regpanic /\ Len(reglog) < MaxRegistrations

Registered(r, call) ==
    /\ hreg' = r.reg
    /\ regpanic' = r.panics
    /\ reglog' = Append(reglog, call)
    /\ UNCHANGED <<hrcvrs, transport, connvars, httpvars>>

CallRegisterMethod ==
    /\ SettingUp
    /\ \E name \in RegNames, fn \in RegFuncs :
         LET r == RegisterMethod(hreg, name, fn)
         IN  Registered(r, RegCall("RegisterMethod", name, fn, NoReceiver, r.panics))

CallRegister ==
    /\ SettingUp
    /\ \E rcvr \in Receivers :
         LET r == Register(hreg, rcvr)
         IN  Registered(r, RegCall("Register", rcvr.type, NoFunc, rcvr, r.panics))

CallRegisterName ==
    /\ SettingUp
    /\ \E name \in TypeNames, rcvr \in Receivers :
         LET r == RegisterName(hreg, name, rcvr)
         IN  Registered(r, RegCall("RegisterName", name, NoFunc, rcvr, r.panics))

Next ==
    \/ CallRegisterMethod
    \/ CallRegister
    \/ CallRegisterName
    \/ HTTPReceive
    \/ HTTPReturn
    \/ DecodeSpawn
    \/ DecodeStop
    \/ MainSendBegin
    \/ MainSendEnd
    \/ \E i \in Workers : WorkerStart(i)
    \/ \E i \in Workers : WorkerReturn(i)
    \/ \E i \in Workers : WorkerSendBegin(i)
    \/ \E i \in Workers : WorkerSendEnd(i)
    \/ Return
    \/ ParentCancel

Spec == Init /\ [][Next]_vars

(***************************************************************************)
(* ServeConn alone, with the scheduling that makes it progress: every     *)
(* goroutine that can take a step eventually takes one, which includes    *)
(* that a user function that was called returns and that a Write call on   *)
(* the stream returns.  The reader and the caller are not obliged to act. *)
(***************************************************************************)
ConnInit == Init /\ transport = "conn"

\* The requests the client of this stream sends: a call and a notification
\* of a function that succeeds, a call of an unknown method, and a call
\* whose result cannot be encoded.
ConnInputs ==
    {Obj(Absent, V2, JStr("echo"), Params1("Notification")),
     Obj(JNum("1"), V2, JStr("echo"), Params1("Hello world!")),
     Obj(JNull, V2, JStr("nosuch"), Params1("Error")),
     Obj(JStr("\"2\""), V2, JStr("mkchan"), Absent)}

ConnDecodeSpawn == DecodeSpawn /\ items'[Len(items')] \in ConnInputs

ConnNext ==
    \/ ConnDecodeSpawn
    \/ DecodeStop
    \/ MainSendBegin
    \/ MainSendEnd
    \/ \E i \in Workers : WorkerStart(i)
    \/ \E i \in Workers : WorkerReturn(i)
    \/ \E i \in Workers : WorkerSendBegin(i)
    \/ \E i \in Workers : WorkerSendEnd(i)
    \/ Return
    \/ ParentCancel

\* The steps of the goroutine of request i.
WorkerStep(i) ==
    /\ i \in Workers
    /\ \/ WorkerStart(i)
       \/ WorkerReturn(i)
       \/ WorkerSendBegin(i)
       \/ WorkerSendEnd(i)

\* The steps of ServeConn after its loop.
MainStep == MainSendBegin \/ MainSendEnd \/ Return

ConnFairness ==
    /\ WF_vars(MainStep)
    /\ \A i \in 1..MaxRequests : WF_vars(WorkerStep(i))

LiveSpec == ConnInit /\ [][ConnNext]_vars /\ ConnFairness

(***************************************************************************)
(* Properties.                                                             *)
(***************************************************************************)
HasId(i) == items[i].id # Absent
WireIdx == 1..Len(wire)
NoWriteFailed == \A k \in WireIdx : wire[k].ok
WriteFailed == \E k \in WireIdx : ~wire[k].ok

\* The documents that reached the stream: (write, position in its payload).
Written == UNION {{<<k, n>> : n \in 1..Len(wire[k].payload)} : k \in WireIdx}
WrittenDoc(kn) == wire[kn[1]].payload[kn[2]]
\* How many responses of worker i were handed to the stream.
Count(i) == Cardinality({kn \in Written : WrittenDoc(kn).of = i})

\* The documents ServeHTTP wrote as JSON-RPC responses.
HTTPDocs == IF reply.status = 200 THEN {reply.body[n] : n \in 1..Len(reply.body)} ELSE {}
HTTPDecoded == reply.status \in {200, 204} /\ Decode(httpitem).errKind = ""

\* C1: in the stream server a decoded request without an id member never
\* causes a write to the stream and never enters send, whether its call
\* succeeded, its method returned an error, its arguments did not bind, its
\* method is unknown or its jsonrpc version is wrong.
C1_NotificationNeverWrites ==
    \A i \in Workers :
        ~HasId(i) =>
            /\ wpc[i] \in {"spawned", "running", "dropped"}
            /\ lock # i
            /\ Count(i) = 0
            /\ \A k \in WireIdx : wire[k].by # i

\* A stream on which an erroring notification and a succeeding one were served
\* to the end.
C1_Witness ==
    /\ mainpc = "returned"
    /\ \E i, j \in Workers :
         /\ ~HasId(i) /\ ~HasId(j)
         /\ wpc[i] = "dropped" /\ reqs[i].res.Error # NilError
         /\ wpc[j] = "dropped" /\ reqs[j].res.Error = NilError
                               /\ reqs[j].res.Result = JStr("Notification")

C3_IdEchoed ==
    /\ \A kn \in Written :
         LET w == WrittenDoc(kn)
         IN  w.of # Main =>
               /\ w.doc.id = items[w.of].id
               /\ w.doc = Encoding(reqs[w.of].res)
               /\ reqs[w.of].Method = "echo" /\ "result" \in DOMAIN w.doc
                     => w.doc.result = items[w.of].params.elems[1]
    /\ \A d \in HTTPDocs :
         (HTTPDecoded /\ "jsonrpc" \in DOMAIN d) => d.id = httpitem.id

\* Two calls with different ids whose responses were written in the reverse
\* of their arrival order.
C3_Witness ==
    /\ Len(wire) = 2
    /\ wire[1].by = 2 /\ wire[2].by = 1
    /\ items[1].id # items[2].id
    /\ wire[1].payload[1].doc.id = items[2].id
    /\ wire[2].payload[1].doc.id = items[1].id

\* C4: no response written by ServeConn or ServeHTTP has both a result
\* member and an error member.
C4_ResultErrorExclusive ==
    /\ \A kn \in Written : ~({"result", "error"} \subseteq DOMAIN WrittenDoc(kn).doc)
    /\ \A d \in HTTPDocs : ~({"result", "error"} \subseteq DOMAIN d)
    /\ \A n \in 1..Len(buf) : ~({"result", "error"} \subseteq DOMAIN buf[n].doc)

\* The stream carries an error response and a result response.
C4_Witness ==
    /\ \E kn \in Written : "error" \in DOMAIN WrittenDoc(kn).doc
    /\ \E kn \in Written : "result" \in DOMAIN WrittenDoc(kn).doc

\* C5: a decoded request is treated as a notification exactly when its id
\* member was absent; a request with "id": null is a call, whose response
\* carries "id": null, over the stream and over HTTP.
C5_NotificationIffIdAbsent ==
    /\ \A i \in Workers :
         /\ IsNotification(reqs[i].res) <=> ~HasId(i)
         /\ wpc[i] = "dropped" => ~HasId(i)
         /\ wpc[i] \in {"send", "encoded", "encfail", "done"} => HasId(i)
    /\ \A kn \in Written :
         LET w == WrittenDoc(kn)
         IN  (w.of # Main /\ items[w.of].id = JNull) => w.doc.id = JNull
    /\ (httppc = "done" /\ HTTPDecoded) =>
         /\ reply.status = 204 <=> httpitem.id = Absent
         /\ httpitem.id = JNull =>
              /\ reply.status = 200
              /\ \A d \in HTTPDocs : d.id = JNull
              /\ ~EncodeFails(httpreq.res) => Len(reply.body) = 1

\* ServeHTTP answered a call with "id": null that echoes its argument.
C5_Witness ==
    /\ httppc = "done"
    /\ httpitem.id = JNull
    /\ httpitem.method = JStr("echo")
    /\ reply.status = 200
    /\ Len(reply.body) = 1
    /\ reply.body[1] = [jsonrpc |-> "2.0", id |-> JNull, result |-> JStr("Hello world!")]

\* C6: responses are written as the workers complete, not in arrival order:
\* a worker whose call is over can send as soon as the mutex is free, whatever
\* the requests that arrived before it are doing, and no response is written
\* for a call that is still executing.
C6_CompletionOrder ==
    /\ \A i \in Workers :
         (Serving /\ wpc[i] = "send" /\ lock = Free) => ENABLED WorkerSendBegin(i)
    /\ \A k \in WireIdx :
         wire[k].by # Main => wpc[wire[k].by] \in {"encoded", "done"}

\* The response to the second request is on the stream while the first
\* request is still in its user function.
C6_Witness ==
    /\ Len(wpc) >= 2
    /\ wpc[1] = "running"
    /\ \E k \in WireIdx : wire[k].by = 2 /\ wire[k].ok

\* C7: every write to the stream carries exactly one complete encoded
\* response, that of the process writing, and each response is written in
\* one write only.
C7_OneWritePerResponse ==
    /\ \A k \in WireIdx :
         /\ Len(wire[k].payload) = 1
         /\ wire[k].payload[1].of = wire[k].by
         /\ wire[k].payload[1].doc =
               Encoding(IF wire[k].by = Main THEN mainreq.res ELSE reqs[wire[k].by].res)
    /\ \A k, l \in WireIdx : wire[k].by = wire[l].by => k = l

\* One worker holds the mutex with its response in the buffer while another
\* worker, its call over, waits to send.
C7_Witness ==
    /\ Len(wire) >= 1
    /\ \E i, j \in Workers : wpc[i] = "encoded" /\ wpc[j] = "send" /\ Len(buf) = 1

\* C8: ServeConn has not returned while a worker it spawned is unfinished,
\* and nothing is written to the stream after it has returned.
C8_ReturnsAfterWorkers ==
    /\ [](mainpc = "returned" => \A i \in Workers : wpc[i] \in {"done", "dropped"})
    /\ [][mainpc = "returned" => wire' = wire]_vars

\* The stream has ended and ServeConn waits for a worker that is still in
\* its user function.
C8_Witness ==
    /\ mainpc = "wait"
    /\ \E i \in Workers : wpc[i] = "running"

\* The context a worker handed to its user function is cancelled.
ObservesCancelled(i) ==
    CASE ctxseen[i] = "conn" -> cancelled
      [] ctxseen[i] = "parent" -> parentCancelled
      [] OTHER -> FALSE

\* C9: once a write to the stream has failed the per-connection context is
\* cancelled, and every user method that is executing, then or later, was
\* given that cancelled context.
C9_WriteFailureCancels ==
    WriteFailed =>
        /\ cancelled
        /\ \A i \in Workers : wpc[i] = "running" => ObservesCancelled(i)

\* A write failed, the caller did not cancel, and a user method is running.
C9_Witness ==
    /\ WriteFailed
    /\ ~parentCancelled
    /\ mainpc # "returned"
    /\ \E i \in Workers : wpc[i] = "running"

\* C10 as stated: after a failed write no further write to the stream is
\* attempted, so a failed write is the last one.
C10_NoWriteAfterFailure ==
    \A k, l \in WireIdx : k < l => wire[k].ok

(***************************************************************************)
(* Properties of the codec, of ServeConn's end and of the HTTP gate.      *)
(***************************************************************************)
\* The request ServeHTTP received was a POST of application/json.
PostJSON == httphdr.method = "POST" /\ httphdr.contentType = "application/json"

\* An error response as the client reads it.
ErrorDoc(id, code, message, data) ==
    [jsonrpc |-> "2.0", id |-> id,
     error |-> [code |-> code, message |-> message, data |-> data]]
JSONReply(doc) == [status |-> 200, contentType |-> "application/json", body |-> <<doc>>]
NoContent == [status |-> 204, contentType |-> "", body |-> <<>>]

\* What a client sent, read off the item itself: text that is not JSON; a
\* JSON object one of whose members has a type the request cannot hold, or a
\* read that failed; an object that decodes.
SyntaxFailure(item) == item.kind = "syntax"
BadMember(item) ==
    \/ item.id.t \notin {"absent", "string", "number", "null"}
    \/ item.jsonrpc.t \notin {"absent", "string", "null"}
    \/ item.method.t \notin {"absent", "string", "null"}
OtherFailure(item) == item.kind = "readerr" \/ (item.kind = "object" /\ BadMember(item))
Decodes(item) == item.kind = "object" /\ ~BadMember(item)
MethodName(item) == IF item.method.t = "string" THEN item.method.v ELSE ""
\* The id the response to a decoded item carries.
ResID(item) == IF item.id = Absent THEN NilBytes ELSE item.id

\* The writes ServeConn itself made (the response to a failed decode).
MainWrites == {k \in WireIdx : wire[k].by = Main}

\* C11: once the stream decoder has failed with anything but the end of the
\* stream, ServeConn writes one error response with id null before it waits
\* for its workers, decodes nothing more and can return as soon as its
\* workers are finished; at the end of the stream it writes nothing itself.
C11_DecodeFailureEndsStream ==
    /\ [](mainpc # "decode" =>
            IF mainitem.kind = "eof"
            THEN MainWrites = {} /\ mainpc \in {"wait", "returned"}
            ELSE /\ Cardinality(MainWrites) <= 1
                 /\ mainpc \in {"wait", "returned"} => Cardinality(MainWrites) = 1
                 /\ \A k \in MainWrites :
                      /\ Len(wire[k].payload) = 1
                      /\ wire[k].payload[1].doc.id = JNull
                      /\ DOMAIN wire[k].payload[1].doc = {"jsonrpc", "id", "error"})
    /\ [][mainpc # "decode" => (mainpc' # "decode" /\ items' = items /\ mainitem' = mainitem)]_vars
    /\ []((Serving /\ mainpc = "wait" /\ \A i \in Workers : wpc[i] \in {"done", "dropped"})
            => ENABLED Return)

\* ServeConn returned after one request was served and the next one, whose
\* id is a boolean, was answered with an error.
C11_Witness ==
    /\ mainpc = "returned"
    /\ mainitem.kind = "object"
    /\ Len(items) = 1
    /\ \E k \in MainWrites : wire[k].ok /\ wire[k].payload[1].doc.id = JNull

\* C12: a request that fails to decode is answered with id null: with code
\* -32700 and the lexer's message for text that is not JSON, with code -32600
\* for every other failure (a member of a wrong type, a failing read), and
\* over HTTP with code -32600 and message "EOF" for an empty body.
C12_DecodeErrors ==
    /\ (httppc = "done" /\ PostJSON) =>
         /\ SyntaxFailure(httpitem) =>
              reply = JSONReply(ErrorDoc(JNull, -32700, httpitem.msg, JNull))
         /\ OtherFailure(httpitem) =>
              /\ reply.status = 200
              /\ Len(reply.body) = 1
              /\ DOMAIN reply.body[1] = {"jsonrpc", "id", "error"}
              /\ reply.body[1].id = JNull
              /\ reply.body[1].error.code = -32600
              /\ reply.body[1].error.data = JNull
              /\ httpcall = NoCall
         /\ httpitem.id = JBool("true") =>
              reply.body[1].error.message = "\"id\" is not a valid type: true"
         /\ httpitem.kind = "eof" =>
              reply = JSONReply(ErrorDoc(JNull, -32600, "EOF", JNull))
    /\ \A k \in MainWrites :
         LET doc == wire[k].payload[1].doc
         IN  /\ SyntaxFailure(mainitem) => doc = ErrorDoc(JNull, -32700, mainitem.msg, JNull)
             /\ OtherFailure(mainitem) =>
                  doc = ErrorDoc(JNull, -32600, "\"id\" is not a valid type: true", JNull)

\* The stream carried text that is not JSON and ServeConn answered it.
C12_Witness ==
    /\ SyntaxFailure(mainitem)
    /\ \E k \in MainWrites :
         wire[k].payload[1].doc.error.code = StatusParseError

\* C13 as stated: every request that carries an id and whose jsonrpc member is
\* anything but "2.0" is answered with -32600, the message "Invalid protocol:
\* expected jsonrpc: 2.0" and its own id, and no method is invoked.
C13_AnyOtherVersion ==
    (httppc = "done" /\ PostJSON /\ httpitem.kind = "object"
       /\ httpitem.id.t \in {"string", "number", "null"} /\ httpitem.jsonrpc # V2) =>
        /\ reply = JSONReply(ErrorDoc(httpitem.id, -32600,
                                      "Invalid protocol: expected jsonrpc: 2.0", JNull))
        /\ httpcall = NoCall

\* C13, amended: a request that decodes and whose jsonrpc is not "2.0" gets
\* the error -32600 "Invalid protocol: expected jsonrpc: 2.0" and its method
\* is not invoked; with an id the response is sent with that id, without one
\* nothing is sent.
C13_ProtocolGate ==
    /\ (httppc # "idle" /\ PostJSON /\ Decodes(httpitem) /\ httpitem.jsonrpc # V2) =>
         /\ httppc = "done"
         /\ httpcall = NoCall
         /\ httpreq.res.Error =
               NewError(-32600, "Invalid protocol: expected jsonrpc: 2.0", GoNil)
         /\ httpreq.res.ID = ResID(httpitem)
         /\ reply = IF httpitem.id = Absent THEN NoContent
                    ELSE JSONReply(ErrorDoc(httpitem.id, -32600,
                                            "Invalid protocol: expected jsonrpc: 2.0", JNull))
    /\ \A i \in Workers :
         items[i].jsonrpc # V2 =>
            /\ wpc[i] \in {"spawned", "send", "encoded", "done", "dropped"}
            /\ ctxseen[i] = "none"
            /\ reqs[i].res.Error =
                  NewError(-32600, "Invalid protocol: expected jsonrpc: 2.0", GoNil)

\* ServeHTTP answered a call of a registered method sent as version 1.0.
C13_Witness ==
    /\ httppc = "done"
    /\ PostJSON
    /\ httpitem.jsonrpc = JStr("1.0")
    /\ httpitem.id = JNum("1")
    /\ httpitem.method = JStr("echo")
    /\ reply.body[1].error.code = StatusInvalidRequest

\* C14: a request that decodes with jsonrpc "2.0" and names a method that is
\* not registered gets exactly the error -32601, "No such method: " followed
\* by the name, data null; its response carries the id of the request, and
\* nothing is invoked.
C14_NoSuchMethod ==
    /\ (httppc # "idle" /\ PostJSON /\ Decodes(httpitem) /\ httpitem.jsonrpc = V2
          /\ MethodName(httpitem) \notin DOMAIN Funcs) =>
         /\ httppc = "done"
         /\ httpcall = NoCall
         /\ httpreq.res.Error =
               NewError(-32601, "No such method: " \o MethodName(httpitem), GoNil)
         /\ httpitem.id # Absent =>
               reply = JSONReply(ErrorDoc(httpitem.id, -32601,
                                          "No such method: " \o MethodName(httpitem), JNull))
    /\ \A kn \in Written :
         LET w == WrittenDoc(kn)
         IN  (w.of # Main /\ items[w.of].jsonrpc = V2
                /\ MethodName(items[w.of]) \notin DOMAIN Funcs) =>
               w.doc = ErrorDoc(items[w.of].id, -32601,
                                "No such method: " \o MethodName(items[w.of]), JNull)

\* The stream carries the answer to a call with id null of an unknown method.
C14_Witness ==
    \E kn \in Written :
        WrittenDoc(kn).doc = ErrorDoc(JNull, -32601, "No such method: nosuch", JNull)

\* ServeHTTP got a request that reaches method.call: a POST of JSON that
\* decodes, has version 2.0 and names a registered method.
Dispatched ==
    /\ httppc # "idle"
    /\ PostJSON
    /\ Decodes(httpitem)
    /\ httpitem.jsonrpc = V2
    /\ MethodName(httpitem) \in DOMAIN Funcs
\* The descriptor of the method it names, and the raw arguments its params
\* stand for when they are given.
Named == registry[MethodName(httpitem)]
Given == IF httpitem.params.t = "array" THEN httpitem.params.elems ELSE <<httpitem.params>>
\* ServeHTTP ended with this binding error and without invoking anything.
Rejected(e) ==
    /\ httppc = "done"
    /\ httpcall = NoCall
    /\ httpreq.res.Error = e
    /\ reply = IF httpitem.id = Absent THEN NoContent
               ELSE JSONReply(ErrorDoc(httpitem.id, e.Code, e.Message, Marshal(e.Data)))

\* C15: a params array whose length differs from the N arguments of a
\* non-variadic method gets -32602 "{name}: require N params"; one shorter
\* than the N fixed arguments of a variadic method gets -32602 "{name}:
\* require at least N params"; the function is not invoked.
C15_Arity ==
    (Dispatched /\ httpitem.params.t = "array") =>
        LET M == Len(httpitem.params.elems)
            N == Named.nargs
            name == MethodName(httpitem)
        IN  /\ (~Funcs[name].variadic /\ M # N) =>
                 Rejected(NewError(-32602,
                                   name \o ": require " \o ToString(N) \o " params", GoNil))
            /\ (Funcs[name].variadic /\ M < N) =>
                 Rejected(NewError(-32602,
                                   name \o ": require at least " \o ToString(N) \o " params",
                                   GoNil))

\* ServeHTTP answered a call of echo that came with two arguments.
C15_Witness ==
    /\ Dispatched
    /\ httpitem.method = JStr("echo")
    /\ httpitem.params = JArr(<<JStr("Hello"), JStr("world!")>>)
    /\ httpitem.id = JNull
    /\ reply = JSONReply(ErrorDoc(JNull, -32602, "echo: require 1 params", JNull))

\* The number of arguments suits the method.
Fits(m, n) == IF m.variadic # "" THEN n >= m.nargs ELSE n = m.nargs

\* C16: when the number of arguments is right and argument i is the first
\* that does not unmarshal into its declared type, the error is -32602 with
\* the raw JSON of argument i as data, and the function is not invoked.
C16_UnmarshalData ==
    (Dispatched /\ httpitem.params.t \notin {"absent", "null"} /\ Fits(Named, Len(Given))) =>
        \A i \in 1..Len(Given) :
            (/\ UnmarshalErr(Given[i], ArgType(Named, i)) # ""
             /\ \A j \in 1..(i - 1) : UnmarshalErr(Given[j], ArgType(Named, j)) = "") =>
                Rejected(NewError(-32602,
                                  MethodName(httpitem) \o ": "
                                     \o UnmarshalErr(Given[i], ArgType(Named, i)),
                                  Given[i]))

\* ServeHTTP answered a call of prefixecho whose two arguments are numbers:
\* the data is the first of them.
C16_Witness ==
    /\ Dispatched
    /\ httpitem.method = JStr("prefixecho")
    /\ httpitem.params = JArr(<<JNum("7"), JNum("8")>>)
    /\ httpitem.id = JNum("1")
    /\ reply.body[1].error.code = StatusInvalidParams
    /\ reply.body[1].error.data = JNum("7")

\* C17: for a method of one argument, params that are a string, a number or
\* an object are that one argument: the function is invoked with it when it
\* unmarshals into the argument's type, and otherwise it is the data of the
\* unmarshal error.
C17_SoleArgument ==
    (Dispatched /\ Named.nargs = 1 /\ Named.variadic = ""
       /\ httpitem.params.t \in {"string", "number", "bool", "object"}) =>
        IF UnmarshalErr(httpitem.params, Named.ins[1]) = ""
        THEN httpcall = Call(MethodName(httpitem), <<httpitem.params>>)
        ELSE Rejected(NewError(-32602,
                               MethodName(httpitem) \o ": "
                                  \o UnmarshalErr(httpitem.params, Named.ins[1]),
                               httpitem.params))

\* echo was called with the string that came as params and ServeHTTP sent
\* it back.
C17_Witness ==
    /\ Dispatched
    /\ httppc = "done"
    /\ httpitem.params = JStr("Hello world!")
    /\ httpcall = Call("echo", <<JStr("Hello world!")>>)
    /\ httpitem.id = JNull
    /\ reply = JSONReply([jsonrpc |-> "2.0", id |-> JNull, result |-> JStr("Hello world!")])

\* C18: when the function returns an *Error, the response carries its code,
\* message and data; when it returns any other error, the response carries
\* -32603, the text of the error and data null.
C18_UserErrors ==
    /\ (Dispatched /\ httppc = "done" /\ httpcall # NoCall) =>
         LET outs == UserFunc(httpcall.name, httpcall.args)
             e == outs.errPtr
         IN  /\ outs.errKind = "jsonrpcError" =>
                  /\ httpreq.res.Error = e
                  /\ httpitem.id # Absent =>
                       reply = JSONReply(ErrorDoc(httpitem.id, e.Code, e.Message, e.Data))
             /\ outs.errKind = "plain" =>
                  /\ httpreq.res.Error = NewError(-32603, outs.errText, GoNil)
                  /\ httpitem.id # Absent =>
                       reply = JSONReply(ErrorDoc(httpitem.id, -32603, outs.errText, JNull))
    /\ \A i \in Workers :
         (wpc[i] \in {"send", "dropped"} /\ ctxseen[i] # "none"
            /\ reqs[i].m.name = "error" /\ reqs[i].Params.t = "array"
            /\ Len(reqs[i].Params.elems) = 1) =>
           reqs[i].res.Error = NewError(-32603, reqs[i].Params.elems[1].v, GoNil)

\* ServeHTTP passed on the Error{101, "This endpoint is bad.", data} that the
\* function returned.
C18_Witness ==
    /\ Dispatched
    /\ httpcall = Call("bad", <<JObj("{\"a\":1}")>>)
    /\ httpitem.id = JStr("\"1\"")
    /\ reply = JSONReply(ErrorDoc(JStr("\"1\""), 101, "This endpoint is bad.",
                                  JObj("{\"a\":1}")))

\* C19 as stated: to a POST of application/json ServeHTTP answers 204 with an
\* empty body exactly when the request is a notification, and in every other
\* case 200 with Content-Type application/json and exactly one JSON response
\* object.
C19_OneResponseObject ==
    (httppc \in {"done", "panic"} /\ PostJSON) =>
        IF Decodes(httpitem) /\ httpitem.id = Absent
        THEN reply = NoContent
        ELSE /\ reply.status = 200
             /\ reply.contentType = "application/json"
             /\ Len(reply.body) = 1
             /\ "jsonrpc" \in DOMAIN reply.body[1]

\* C20 as stated: every request whose HTTP method is not POST is answered
\* with 405 and no method is invoked for it.
C20_NonPostIs405 ==
    (httppc # "idle" /\ httphdr.method # "POST") =>
        /\ reply.status = 405
        /\ httpcall = NoCall

\* C20, amended: a request whose HTTP method is not POST is answered with 405
\* when its Content-Type is application/json and with 415 otherwise; it is
\* not decoded and no method is invoked for it.
C20_NonPostRejected ==
    (httppc # "idle" /\ httphdr.method # "POST") =>
        /\ httppc = "done"
        /\ httpcall = NoCall
        /\ httpreq = NewRequest
        /\ reply.status = IF httphdr.contentType = "application/json" THEN 405 ELSE 415
        /\ reply.contentType = "text/plain; charset=utf-8"
        /\ httphdr.contentType = "application/json" =>
             reply.body = <<[text |-> "Unsupported method: must be POST"]>>

\* ServeHTTP refused a GET that carried a valid call of echo as JSON.
C20_Witness ==
    /\ httphdr = Header("GET", "application/json")
    /\ httpitem = Obj(JNum("1"), V2, JStr("echo"), JArr(<<JStr("Hello")>>))
    /\ reply.status = 405

\* C21: a request whose Content-Type is anything but application/json (a
\* parameter added, another type, no header) is answered with 415, whatever
\* its HTTP method; it is not decoded and no method is invoked for it.
C21_ContentTypeGate ==
    (httppc # "idle" /\ httphdr.contentType # "application/json") =>
        /\ httppc = "done"
        /\ httpcall = NoCall
        /\ httpreq = NewRequest
        /\ reply = [status |-> 415, contentType |-> "text/plain; charset=utf-8",
                    body |-> <<[text |-> "Unsupported Content-Type: must be application/json"]>>]

\* ServeHTTP refused a POST of a valid call of echo whose Content-Type names
\* a charset.
C21_Witness ==
    /\ httphdr = Header("POST", "application/json; charset=utf-8")
    /\ httpitem = Obj(JNum("1"), V2, JStr("echo"), JArr(<<JStr("Hello")>>))
    /\ reply.status = 415

\* C25: a call whose function returns a nil *Error as its error makes
\* ServeHTTP panic: nothing is written to the client, no status, no header,
\* no body; and nothing else makes it panic.
C25_TypedNilPanics ==
    /\ (Dispatched /\ httpcall # NoCall /\ httppc # "running"
          /\ UserFunc(httpcall.name, httpcall.args).errKind = "typedNil") =>
         /\ httppc = "panic"
         /\ reply = NoReply
         /\ httpreq.res.Error = NilError
    /\ httppc = "panic" =>
         /\ Dispatched
         /\ UserFunc(httpcall.name, httpcall.args).errKind = "typedNil"

\* ServeHTTP panicked on a call of nilerror with id 1.
C25_Witness ==
    /\ httppc = "panic"
    /\ httpcall = Call("nilerror", <<>>)
    /\ httpitem.id = JNum("1")
    /\ reply = NoReply

\* The function declares a result: its first return value is not its error.
DeclaresResult(sig) == Len(sig.outs) > 0 /\ sig.outs[1] # "error"

\* C26: the response to a call that succeeded has a result member and no
\* error member: the first value the function returned when it declares a
\* result, null when it declares none.
C26_ResultMember ==
    /\ (Dispatched /\ httppc = "done" /\ httpcall # NoCall /\ httpitem.id # Absent
          /\ UserFunc(httpcall.name, httpcall.args).errKind = "nil"
          /\ reply.body # <<>>) =>
         reply = JSONReply([jsonrpc |-> "2.0", id |-> httpitem.id,
                            result |-> IF DeclaresResult(Funcs[httpcall.name])
                                       THEN UserFunc(httpcall.name, httpcall.args).result
                                       ELSE JNull])
    /\ \A kn \in Written :
         LET w == WrittenDoc(kn)
         IN  (w.of # Main /\ reqs[w.of].res.Error = NilError) =>
               DOMAIN w.doc = {"jsonrpc", "id", "result"}

\* ServeHTTP answered a call of a function that returns only an error, which
\* was nil.
C26_Witness ==
    /\ httppc = "done"
    /\ httpcall = Call("validate", <<JNum("7")>>)
    /\ reply = JSONReply([jsonrpc |-> "2.0", id |-> JStr("\"1\""), result |-> JNull])

\* C30: with params absent or null the function gets no arguments; with an
\* array it gets the elements of the array, as many and in the same order.
\* The call is made when that number suits the method and every argument
\* unmarshals; otherwise it is refused for that number or that argument.
C30_PositionalArguments ==
    (Dispatched /\ httppc # "running" /\ httpitem.params.t \in {"absent", "null", "array"}) =>
        LET expect == IF httpitem.params.t = "array" THEN httpitem.params.elems ELSE <<>>
            name == MethodName(httpitem)
        IN  IF ~Fits(Named, Len(expect))
            THEN /\ httpcall = NoCall
                 /\ httpreq.res.Error.Code = -32602
                 /\ httpreq.res.Error.Message =
                       name \o ": require " \o (IF Named.variadic # "" THEN "at least " ELSE "")
                            \o ToString(Named.nargs) \o " params"
            ELSE IF \E i \in 1..Len(expect) : UnmarshalErr(expect[i], ArgType(Named, i)) # ""
            THEN httpcall = NoCall /\ httpreq.res.Error.Code = -32602
            ELSE httpcall = Call(name, expect)

\* prefixecho was called with the two elements of its params, in order.
C30_Witness ==
    /\ httppc = "done"
    /\ httpitem.params = JArr(<<JStr("Hello"), JStr("world!")>>)
    /\ httpcall = Call("prefixecho", <<JStr("Hello"), JStr("world!")>>)
    /\ reply.status = 200

\* C27: the decode loop can take its next request whatever its workers are
\* doing, a request that was decoded can start at once, and the goroutine
\* that holds the writer mutex is past its user function: it has only the
\* write left to do.
C27_NoHeadOfLineBlocking ==
    /\ (Serving /\ mainpc = "decode") =>
         /\ ENABLED DecodeStop
         /\ Len(wpc) < MaxRequests => ENABLED DecodeSpawn
    /\ \A i \in Workers :
         /\ (Serving /\ wpc[i] = "spawned") => ENABLED WorkerStart(i)
         /\ wpc[i] \in {"spawned", "running"} => lock # i
         /\ lock = i => wpc[i] \in {"encoded", "encfail"}
    /\ lock = Main => mainpc \in {"encoded", "encfail"}

\* The first call is still in its user function; the second request was
\* decoded after it, has been answered, and the loop is ready to decode.
C27_Witness ==
    /\ mainpc = "decode"
    /\ Len(wpc) = 2
    /\ wpc[1] = "running"
    /\ wpc[2] = "done"
    /\ Count(2) = 1
    /\ lock = Free

EncodeFailed == \E i \in Workers : wpc[i] = "done" /\ EncodeFails(reqs[i].res)

C29_EventuallyReturns == (mainpc # "decode") ~> (mainpc = "returned")

\* The loop has ended while one call is in its user function and another
\* waits for the mutex that a third goroutine holds.
C29_Witness ==
    /\ mainpc = "encoded"
    /\ \E i, j \in Workers : wpc[i] = "running" /\ wpc[j] = "send"

\* What a function declares, read off its signature: whether its first
\* parameter is a context, and how many of its parameters are neither that
\* context nor the variadic one.
TakesContext(fn) == Len(fn.ins) > 0 /\ fn.ins[1] = "context"
Skip(fn) == IF TakesContext(fn) THEN 1 ELSE 0
FixedArity(fn) == Len(fn.ins) - Skip(fn) - (IF fn.variadic THEN 1 ELSE 0)
\* The raw arguments the posted params stand for.
Supplied == IF httpitem.params.t \in {"absent", "null"} THEN <<>> ELSE Given

\* C31: the descriptor of a registered function counts neither a leading
\* context parameter nor the variadic parameter in its arity.  When the
\* function is called, a leading context parameter gets the context of the
\* call and the JSON arguments fill the parameters after it, each as a value
\* of its parameter's type, those at or beyond the fixed arity as values of
\* the variadic element type; such an argument that does not unmarshal as
\* that type is refused.
C31_ContextAndVariadic ==
    /\ \A name \in DOMAIN hreg :
         LET m == hreg[name]
             fn == m.Value
         IN  /\ m.hasContext = TakesContext(fn)
             /\ m.nargs = FixedArity(fn)
             /\ (m.variadic # "") = fn.variadic
             /\ fn.variadic => m.variadic = fn.ins[Len(fn.ins)]
    /\ (Dispatched /\ httpcall # NoCall) =>
         LET fn == Funcs[httpcall.name]
         IN  /\ Len(httpins) = Len(Supplied) + Skip(fn)
             /\ TakesContext(fn) => httpins[1] = ContextValue("request")
             /\ \A k \in 1..Len(Supplied) :
                  httpins[k + Skip(fn)] =
                      NewValue(IF k <= FixedArity(fn) THEN fn.ins[k + Skip(fn)]
                               ELSE fn.ins[Len(fn.ins)],
                               Supplied[k])
    /\ (Dispatched /\ httppc = "done") =>
         LET fn == Funcs[MethodName(httpitem)]
         IN  (/\ fn.variadic
              /\ \E k \in 1..Len(Supplied) :
                    /\ k > FixedArity(fn)
                    /\ UnmarshalErr(Supplied[k], fn.ins[Len(fn.ins)]) # "") =>
                 /\ httpcall = NoCall
                 /\ httpreq.res.Error # NilError
                 /\ httpreq.res.Error.Code = -32602

\* ctxjoin(ctx, string, ...int) was called with the context of the request,
\* a string and an int.
C31_Witness ==
    /\ httppc = "done"
    /\ reply.status = 200
    /\ httpcall = Call("ctxjoin", <<JStr("Hello"), JNum("7")>>)
    /\ httpins = <<ContextValue("request"), NewValue("string", JStr("Hello")),
                   NewValue("int", JNum("7"))>>

\* The raw arguments the params of a request stand for.
ArgsOf(item) ==
    IF item.params.t \in {"absent", "null"} THEN <<>>
    ELSE IF item.params.t = "array" THEN item.params.elems ELSE <<item.params>>

\* A decoded request that should reach its function: version 2.0, a
\* registered method, a number of arguments that suits it, and arguments
\* that all unmarshal.  The id plays no part.
Eligible(item) ==
    /\ item.jsonrpc = V2
    /\ MethodName(item) \in DOMAIN Funcs
    /\ LET m == registry[MethodName(item)]
           args == ArgsOf(item)
       IN  /\ Fits(m, Len(args))
           /\ \A k \in 1..Len(args) : UnmarshalErr(args[k], ArgType(m, k)) = ""

\* The steps that enter a user function, and the positions from which none
\* can be entered any more.
EntersOnce ==
    /\ \A i \in Workers :
         /\ (wpc[i] = "spawned" /\ wpc'[i] # "spawned") =>
                ((wpc'[i] = "running") <=> Eligible(items[i]))
         /\ wpc[i] \notin {"spawned", "running"} => wpc'[i] \notin {"spawned", "running"}
         /\ wpc[i] = "running" => wpc'[i] # "spawned"
    /\ httppc # "idle" => httppc' # "idle"
    /\ httppc \notin {"idle", "running"} => httppc' # "running"
    /\ httpcall # NoCall => httpcall' = httpcall

\* C32: for a request that was decoded the user function is entered at most
\* once, and it is entered exactly when the version is 2.0, the method is
\* registered, the number of arguments suits it and every argument
\* unmarshals, whether or not the request has an id.
C32_InvokedExactlyWhenEligible ==
    /\ []((httppc # "idle" /\ PostJSON /\ Decodes(httpitem)) =>
            ((httpcall # NoCall) <=> Eligible(httpitem)))
    /\ [](\A i \in Workers : wpc[i] = "running" => Eligible(items[i]))
    /\ [][EntersOnce]_vars

\* A notification and a call of echo are both inside the function.
C32_Witness ==
    /\ Len(wpc) = 2
    /\ items[1].id = Absent
    /\ items[2].id # Absent
    /\ wpc[1] = "running"
    /\ wpc[2] = "running"
    /\ MethodName(items[1]) = MethodName(items[2])

\* The decoder failed with something other than the end of the stream.
DecodeFailed == mainpc # "decode" /\ mainitem.kind # "eof"
\* The error response of ServeConn waits for the mutex only, and ServeConn
\* returns after all its workers.
ErrorNotHeldBack ==
    /\ (Serving /\ DecodeFailed /\ mainpc = "send" /\ lock = Free) => ENABLED MainSendBegin
    /\ (DecodeFailed /\ mainpc = "returned") => \A i \in Workers : Finished(wpc[i])
\* Worker i made a write to the stream.
Wrote(i) == \E k \in WireIdx : wire[k].by = i

LoopEndsOnDecoder ==
    (mainpc = "decode" /\ mainpc' # "decode") =>
        /\ mainitem' \in StreamInputs \cup {EOFItem}
        /\ ~decodeRequest(hreg, mainitem').ok

\* C34: ServeConn returns only after the decoder reported the end of the
\* stream or an error.  With the context cancelled, by the caller or after a
\* failed write, the loop still decodes the next request and still can
\* stop only on the decoder; the request it decodes is started, and its user
\* function runs with the context of the connection, which is cancelled.
C34_LoopEndsOnlyOnDecoder ==
    /\ [](mainpc = "returned" =>
            /\ mainitem # NoItem
            /\ ~decodeRequest(hreg, mainitem).ok)
    /\ [][LoopEndsOnDecoder]_vars
    /\ []((Serving /\ mainpc = "decode" /\ (cancelled \/ parentCancelled \/ WriteFailed)) =>
            /\ Len(wpc) < MaxRequests => ENABLED DecodeSpawn
            /\ \A i \in Workers :
                 /\ wpc[i] = "spawned" => ENABLED WorkerStart(i)
                 /\ wpc[i] = "running" => (ctxseen[i] = "conn" /\ ObservesCancelled(i)))
    /\ [][(cancelled /\ mainpc = "decode") => mainpc' \in {"decode", "send", "wait"}]_vars

\* The write of the first response failed; the loop is still decoding and
\* the second request is in its user function with the cancelled context.
C34_Witness ==
    /\ mainpc = "decode"
    /\ ~parentCancelled
    /\ Len(wire) = 1
    /\ wire[1].by = 1
    /\ ~wire[1].ok
    /\ Len(wpc) = 2
    /\ wpc[2] = "running"
    /\ ObservesCancelled(2)

\* A step that changes the buffer is a step of the mutex holder: its Encode
\* as it takes the mutex, or its WriteTo and Reset as it gives it up.
BufferStep ==
    buf' # buf =>
        \/ lock = Free /\ lock' # Free /\ \A n \in 1..Len(buf') : buf'[n].of = lock'
        \/ lock # Free /\ lock' = Free /\ buf' = <<>>

\* C35: the buffer changes only in steps of the goroutine that holds the
\* mutex and holds nothing but that goroutine's response; it is empty
\* whenever the mutex is free, also after an Encode or a write that failed;
\* so every write carries only the response of the goroutine writing.
C35_BufferUnderMutex ==
    /\ [][BufferStep]_vars
    /\ [](lock = Free => buf = <<>>)
    /\ [](\A n \in 1..Len(buf) : buf[n].of = lock)
    /\ [](\A k \in WireIdx : \A n \in 1..Len(wire[k].payload) :
             wire[k].payload[n].of = wire[k].by)

\* One response could not be encoded and the write of another failed; after
\* both, ServeConn wrote its own error response and nothing else with it.
C35_Witness ==
    /\ lock = Free
    /\ buf = <<>>
    /\ EncodeFailed
    /\ \E k, n \in WireIdx :
         /\ k < n
         /\ ~wire[k].ok
         /\ wire[n].by = Main
         /\ wire[n].ok
         /\ Len(wire[n].payload) = 1

\* ServeHTTP got a JSON object whose jsonrpc member is not the string "2.0"
\* (another string, another type, or none) and whose method is not
\* registered.
WrongVersionAndMethod ==
    /\ httppc = "done"
    /\ PostJSON
    /\ httpitem.kind = "object"
    /\ httpitem.jsonrpc # V2
    /\ MethodName(httpitem) \notin DOMAIN Funcs

\* C36: the version is checked before the method is looked up: a request
\* whose jsonrpc is not "2.0" and whose method is not registered gets the
\* error -32600, in the response prepared and in the one written, and no
\* function is called.
C36_VersionBeforeLookup ==
    WrongVersionAndMethod =>
        /\ httpcall = NoCall
        /\ httpreq.res.Error # NilError
        /\ httpreq.res.Error.Code = StatusInvalidRequest
        /\ httpreq.res.Error.Code # StatusMethodNotFound
        /\ \A doc \in HTTPDocs : doc.error.code = StatusInvalidRequest
        /\ httpitem.id \in {JNull, JNum("1"), JStr("\"1\"")} => Cardinality(HTTPDocs) = 1

\* A call of an unknown method with version 1.0 was answered under its id
\* with the version error.
C36_Witness ==
    /\ WrongVersionAndMethod
    /\ httpitem.jsonrpc = JStr("1.0")
    /\ httpitem.id = JNum("1")
    /\ reply = JSONReply(ErrorDoc(JNum("1"), -32600,
                                  "Invalid protocol: expected jsonrpc: 2.0", JNull))

(***************************************************************************)
(* Properties of registration.                                             *)
(***************************************************************************)
\* A callable RegisterMethod accepts: a function that returns nothing, one
\* value, or one value followed by an error.
Legal(fn) ==
    /\ fn.kind = "func"
    /\ \/ Len(fn.outs) <= 1
       \/ Len(fn.outs) = 2 /\ fn.outs[2] = "error"

\* The <<name, callable>> pairs the methods of a receiver from index i on
\* are registered as under a type name, up to the first illegal one.
RECURSIVE MethodPairs(_, _, _)
MethodPairs(typeName, rcvr, i) ==
    IF i > Len(rcvr.methods) THEN <<>>
    ELSE LET mt == rcvr.methods[i]
         IN  IF ~mt.exported THEN MethodPairs(typeName, rcvr, i + 1)
             ELSE IF ~Legal(mt.sig) THEN <<>>
             ELSE <<(<<typeName \o "." \o mt.name, MethodValue(rcvr, mt)>>)>>
                     \o MethodPairs(typeName, rcvr, i + 1)

\* The pairs one call of reglog registered.
Writes(call) ==
    IF call.op = "RegisterMethod"
    THEN IF Legal(call.fn) THEN <<(<<call.name, call.fn>>)>> ELSE <<>>
    ELSE MethodPairs(call.name, call.rcvr, 1)

\* Every pair registered on the handler so far, in program order.
RECURSIVE ConstructorPairs(_)
ConstructorPairs(rcvrs) ==
    IF Len(rcvrs) = 0 THEN <<>>
    ELSE MethodPairs(rcvrs[1].type, rcvrs[1], 1) \o ConstructorPairs(Tail(rcvrs))
RECURSIVE LogPairs(_)
LogPairs(log) ==
    IF Len(log) = 0 THEN <<>> ELSE Writes(log[1]) \o LogPairs(Tail(log))
AllPairs == ConstructorPairs(hrcvrs) \o LogPairs(reglog)
LastOf(name) ==
    CHOOSE k \in 1..Len(AllPairs) :
        /\ AllPairs[k][1] = name
        /\ \A l \in (k + 1)..Len(AllPairs) : AllPairs[l][1] # name

\* C22: the registry holds exactly the names registered so far, each name
\* resolves to the callable of the last registration under it, and no
\* registration removes a name.
C22_LastWriteWins ==
    /\ [](/\ DOMAIN hreg = {AllPairs[k][1] : k \in 1..Len(AllPairs)}
          /\ \A name \in DOMAIN hreg :
                /\ hreg[name].Value = AllPairs[LastOf(name)][2]
                /\ hreg[name].name = name)
    /\ [][DOMAIN hreg \subseteq DOMAIN hreg']_vars

\* Echoer.Echo, registered by NewHandler as a method of a receiver, was
\* registered again as a plain function and then once more as another.
C22_Witness ==
    /\ hrcvrs = <<Echoer1>>
    /\ Len(reglog) = 2
    /\ reglog[1].name = "Echoer.Echo"
    /\ reglog[2].name = "Echoer.Echo"
    /\ reglog[1].fn # reglog[2].fn
    /\ ~regpanic
    /\ hreg["Echoer.Echo"].Value = reglog[2].fn

\* C23: RegisterMethod panics exactly when its callable is not a function
\* or returns more than one value followed by one error, and a call that
\* panics leaves the registry as it was.
C23_IllegalCallablePanics ==
    /\ [](\A k \in 1..Len(reglog) :
             reglog[k].op = "RegisterMethod" =>
                /\ reglog[k].panics <=> ~Legal(reglog[k].fn)
                /\ reglog[k].panics => (regpanic /\ k = Len(reglog)))
    /\ [][(Len(reglog') > Len(reglog) /\ reglog'[Len(reglog')].op = "RegisterMethod"
             /\ ~Legal(reglog'[Len(reglog')].fn))
            => (hreg' = hreg /\ regpanic')]_vars

\* After a successful registration, RegisterMethod panicked on a value that
\* is not a function.
C23_Witness ==
    /\ regpanic
    /\ Len(reglog) = 2
    /\ reglog[1].op = "RegisterMethod" /\ ~reglog[1].panics
    /\ reglog[2].op = "RegisterMethod" /\ reglog[2].fn.kind = "struct"
    /\ DOMAIN hreg = {reglog[1].name}

\* The exported methods of a receiver.
Exported(rcvr) == {i \in 1..Len(rcvr.methods) : rcvr.methods[i].exported}
\* The registry holds method i of the receiver under the type name.
Holds(reg, typeName, rcvr, i) ==
    LET key == typeName \o "." \o rcvr.methods[i].name
    IN  /\ key \in DOMAIN reg
        /\ reg[key].name = key
        /\ reg[key].Value.recv = rcvr.id
        /\ reg[key].Value.method = rcvr.methods[i].name
        /\ reg[key].Value.ins = rcvr.methods[i].sig.ins
        /\ reg[key].Value.outs = rcvr.methods[i].sig.outs

\* C24: a call of Register or RegisterName that returns has registered every
\* exported method of its receiver as "TypeName.MethodName", bound to that
\* receiver, with the name of the receiver's type for Register and the given
\* name for RegisterName, and has touched no other name; the handler that
\* NewHandler returns holds exactly the exported methods of its receivers.
C24_RegisterReceiver ==
    /\ []((transport = "none" /\ reglog = <<>>) =>
            /\ \A r \in 1..Len(hrcvrs) :
                  \A i \in Exported(hrcvrs[r]) : Holds(hreg, hrcvrs[r].type, hrcvrs[r], i)
            /\ DOMAIN hreg =
                  UNION {{hrcvrs[r].type \o "." \o hrcvrs[r].methods[i].name :
                            i \in Exported(hrcvrs[r])} : r \in 1..Len(hrcvrs)})
    /\ [][(Len(reglog') > Len(reglog)
             /\ reglog'[Len(reglog')].op \in {"Register", "RegisterName"}
             /\ ~regpanic')
            => LET call == reglog'[Len(reglog')]
                   keys == {call.name \o "." \o call.rcvr.methods[i].name :
                               i \in Exported(call.rcvr)}
               IN  /\ call.op = "Register" => call.name = call.rcvr.type
                   /\ \A i \in Exported(call.rcvr) : Holds(hreg', call.name, call.rcvr, i)
                   /\ DOMAIN hreg' = DOMAIN hreg \cup keys
                   /\ \A n \in DOMAIN hreg \ keys : hreg'[n] = hreg[n]]_vars

\* A second value of type Echoer was registered under the name Svc on a
\* handler made with the first one.
C24_Witness ==
    /\ hrcvrs = <<Echoer1>>
    /\ Len(reglog) = 1
    /\ reglog[1].op = "RegisterName"
    /\ reglog[1].rcvr = Echoer2
    /\ DOMAIN hreg = {"Echoer.DelayEcho", "Echoer.Echo", "Svc.DelayEcho", "Svc.Echo"}
    /\ hreg["Svc.Echo"].Value.recv = 2
    /\ hreg["Echoer.Echo"].Value.recv = 1

====
